---- MODULE Spec2Model ----
(***************************************************************************)
(* BackstageFargateServiceConstruct: the constructor that composes a       *)
(* service-auth secret, an ECS cluster, an application-load-balanced        *)
(* Fargate service, access logging, a KMS decrypt grant, a database        *)
(* ingress rule and a load-balancer security group into one construct.     *)
(*                                                                         *)
(* One behaviour is a sequence of constructor invocations against one      *)
(* parent scope and one database cluster.  Each statement of the           *)
(* constructor is one action; a statement that calls into the resource     *)
(* library may throw, and an exception leaves the constructor (there is no *)
(* try/catch in it).                                                       *)
(***************************************************************************)
EXTENDS Integers, Sequences, FiniteSets, TLC

VARIABLES
    pc,          \* position of the running constructor, or idle/done/failed
    callerProps, \* the props argument as the caller passed it
    props,       \* the local props after line 100
    tree,        \* ids of the constructs already under the parent scope
    log,         \* the statements executed so far, in order: [inv, id, step]
    outcomes,    \* per finished invocation: [id, result, at, ecrKmsKey, dbSecret]
    secrets,     \* Secrets Manager secrets created
    clusters,    \* ECS clusters created
    services,    \* load-balanced service definitions created
    accessLogs,  \* [lb, bucket] access-log attachments
    grants,      \* [key, grantee] decrypt grants
    dbRules,     \* ingress rules of the database cluster's connections
    lbIngress,   \* [lb, via] ingress boundaries of the load balancers
    returned,    \* [inv, fields]: the public fields of the returned constructs
    invocations  \* number of constructor invocations started

vars == <<pc, callerProps, props, tree, log, outcomes, secrets, clusters,
          services, accessLogs, grants, dbRules, lbIngress, returned,
          invocations>>

----------------------------------------------------------------------------
(* Bounds of the model. *)

MaxInvocations == 2

ConstructIds == {"BackstageA", "BackstageB"}

CallerEnvKeys == {"LOG_LEVEL"}
CallerEnvValues == {"debug"}
CallerSecretKeys == {"GITHUB_TOKEN"}

Undefined == "undefined"

(* ecs.Secret.fromSecretsManager(secret, field) *)
FromSecretsManager(secret, field) == [secret |-> secret, field |-> field]

CallerSecretValues == {FromSecretsManager("github-secret", "token")}

EmptyMap == [k \in {} |-> ""]

Maps(keys, values) == UNION {[d -> values] : d \in SUBSET keys}

(* An optional property of the props object (envVars?, secretVars?): the   *)
(* property is not given, or it is given and its value is a map, undefined *)
(* (the type admits it) or null (a JavaScript caller).  map is the value   *)
(* when value = "map" and is not meaningful otherwise.                     *)
Absent == [given |-> FALSE, value |-> Undefined, map |-> EmptyMap]
Present(m) == [given |-> TRUE, value |-> "map", map |-> m]
GivenUndefined == [given |-> TRUE, value |-> Undefined, map |-> EmptyMap]
GivenNull == [given |-> TRUE, value |-> "null", map |-> EmptyMap]
Optional(keys, values) ==
    {Absent, GivenUndefined, GivenNull} \cup {Present(m) : m \in Maps(keys, values)}

----------------------------------------------------------------------------
(* The fixed parts of the props object the model does not vary. *)

config ==
    [AppPrefix |-> "baws",
     R53HostedZoneName |-> "example.com",
     CustomerName |-> "ACME",
     CustomerLogo |-> "logo.png",
     CustomerLogoIcon |-> "icon.png"]

network == [vpc |-> "vpc", allowedIpsSg |-> "allowed-ips-sg"]

clusterEndpoint == [hostname |-> "db.internal", port |-> 5432]

(* The rules a database perimeter may hold before the first invocation. *)
PreExistingRules ==
    {[peer |-> "legacy-app-sg", description |-> "legacy application"],
     [peer |-> "BackstageA/baws-backstage/Service/SecurityGroup",
      description |-> "from fargate service"]}

----------------------------------------------------------------------------
(* Line 82-85 and line 100: props = { ...defaultProps, ...props }. *)

defaultProps == [envVars |-> Present(EmptyMap), secretVars |-> Present(EmptyMap)]

(* A property the caller gives overrides the default whatever its value,  *)
(* undefined and null included; only a property not given takes it.       *)
Spread(defaults, caller) ==
    [k \in DOMAIN caller |->
        IF k \in DOMAIN defaults /\ ~caller[k].given
        THEN defaults[k]
        ELSE caller[k]]

MergeProps(caller) ==
    [id |-> caller.id,
     ecrKmsKey |-> caller.ecrKmsKey,
     dbSecret |-> caller.dbSecret,
     optional |-> Spread(defaultProps,
                         [envVars |-> caller.envVars,
                          secretVars |-> caller.secretVars])]

----------------------------------------------------------------------------
(* Handles of the resources one invocation creates, named by construct path. *)

SecretHandle(id) == id \o "/" \o config.AppPrefix \o "-backstage-appsecret"
ClusterHandle(id) == id \o "/backstage-solution-cluster"
ServiceHandle(id) == id \o "/" \o config.AppPrefix \o "-backstage"
LoadBalancerHandle(id) == ServiceHandle(id) \o "/LB"
ServicePeer(id) == ServiceHandle(id) \o "/Service/SecurityGroup"
ExecutionRole(id) == ServiceHandle(id) \o "/TaskDef/ExecutionRole"


----------------------------------------------------------------------------
(* Lines 116-161: the properties handed to                                 *)
(* ecsPatterns.ApplicationLoadBalancedFargateService.                      *)

(* The listener left without the HTTP redirect. *)
redirectHTTPOff == FALSE

redirectHTTP == TRUE
protocol == "HTTPS"

(* The pattern's own default for openListener. *)
openListenerDefault == TRUE

openListener == FALSE
containerPort == 8080
memoryLimitMiB == 2048
cpu == 512
desiredCount == 2

(* Lines 126-140: taskImageOptions.environment. *)
Environment(p) ==
    [POSTGRES_HOST |-> clusterEndpoint.hostname,
     POSTGRES_PORT |-> ToString(clusterEndpoint.port),
     BACKSTAGE_TITLE |-> "Backstage AWS Suite",
     BACKSTAGE_ORGNAME |-> "BAWS",
     PROTOCOL |-> "https",
     BACKSTAGE_HOSTNAME |-> config.R53HostedZoneName,
     GITLAB_HOSTNAME |-> "git." \o config.R53HostedZoneName,
     BACKSTAGE_PORT |-> "443",
     NODE_ENV |-> "production",
     CUSTOMER_NAME |-> config.CustomerName,
     CUSTOMER_LOGO |-> config.CustomerLogo,
     CUSTOMER_LOGO_ICON |-> config.CustomerLogoIcon]

(* The secrets with the generated service secret left out. *)
ContainerSecretsWithoutServiceSecret(p) ==
    [POSTGRES_USER |-> FromSecretsManager(p.dbSecret, "username"),
     POSTGRES_PASSWORD |-> FromSecretsManager(p.dbSecret, "password"),
     OKTA_ORG_URL |-> FromSecretsManager("okta-secret", "audience"),
     OKTA_CLIENT_ID |-> FromSecretsManager("okta-secret", "clientId"),
     OKTA_CLIENT_SECRET |-> FromSecretsManager("okta-secret", "clientSecret"),
     OKTA_API_TOKEN |-> FromSecretsManager("okta-secret", "apiToken"),
     GITLAB_ADMIN_TOKEN |-> FromSecretsManager("gitlab-admin-secret", "apiToken")]

(* Lines 141-150: taskImageOptions.secrets. *)
ContainerSecrets(p) ==
    [POSTGRES_USER |-> FromSecretsManager(p.dbSecret, "username"),
     POSTGRES_PASSWORD |-> FromSecretsManager(p.dbSecret, "password"),
     OKTA_ORG_URL |-> FromSecretsManager("okta-secret", "audience"),
     OKTA_CLIENT_ID |-> FromSecretsManager("okta-secret", "clientId"),
     OKTA_CLIENT_SECRET |-> FromSecretsManager("okta-secret", "clientSecret"),
     OKTA_API_TOKEN |-> FromSecretsManager("okta-secret", "apiToken"),
     BACKSTAGE_SECRET |-> FromSecretsManager(SecretHandle(p.id), ""),
     GITLAB_ADMIN_TOKEN |-> FromSecretsManager("gitlab-admin-secret", "apiToken")]

(* The listeners the pattern builds from protocol and redirectHTTP. *)
Listeners(proto, redirect) ==
    {[port |-> IF proto = "HTTPS" THEN 443 ELSE 80,
      protocol |-> proto, action |-> "forward"]}
    \cup (IF redirect /\ proto = "HTTPS"
          THEN {[port |-> 80, protocol |-> "HTTP", action |-> "redirect-to-HTTPS"]}
          ELSE {})

(* The ingress an open listener adds to the load balancer's own group. *)
ListenerIngress(open) == IF open THEN {"0.0.0.0/0"} ELSE {}

ServiceDefinition(p) ==
    [id |-> p.id,
     handle |-> ServiceHandle(p.id),
     cluster |-> ClusterHandle(p.id),
     loadBalancer |-> LoadBalancerHandle(p.id),
     enableExecuteCommand |-> TRUE,
     redirectHTTP |-> redirectHTTP,
     protocol |-> protocol,
     listeners |-> Listeners(protocol, redirectHTTP),
     image |-> "ecr-repository",
     environment |-> Environment(p),
     secrets |-> ContainerSecrets(p),
     containerPort |-> containerPort,
     taskRole |-> "task-role",
     openListener |-> openListener,
     memoryLimitMiB |-> memoryLimitMiB,
     cpu |-> cpu,
     desiredCount |-> desiredCount,
     domainName |-> config.R53HostedZoneName]

----------------------------------------------------------------------------
(* The statements of the constructor, in source order. *)

StatementOrder ==
    <<"merge", "secret", "cluster", "service", "logs", "grant", "db", "lb", "assign">>

IndexOf(step) == CHOOSE i \in 1..Len(StatementOrder) : StatementOrder[i] = step

(* The database opened and the grant issued ahead of the service. *)
NextStatementDbFirst(step) ==
    CASE step = "merge" -> "secret"
      [] step = "secret" -> "cluster"
      [] step = "cluster" -> "db"
      [] step = "db" -> "service"
      [] step = "service" -> "logs"
      [] step = "logs" -> "grant"
      [] step = "grant" -> "lb"
      [] step = "lb" -> "assign"
      [] OTHER -> "done"

NextStatement(step) ==
    IF IndexOf(step) = Len(StatementOrder)
    THEN "done"
    ELSE StatementOrder[IndexOf(step) + 1]

(* The statements that call into the resource library and so may throw. *)
LibraryCalls == {"secret", "cluster", "service", "logs", "grant", "db", "lb"}

(* The grant made without the check of the key. *)
ShouldGrantAlways(p) == TRUE

(* Line 167: if (props.ecrKmsKey). *)
ShouldGrant(p) == p.ecrKmsKey # Undefined

(* The perimeter replaced by the one new rule. *)
ReplaceRules(rules, peer, description) ==
    {[peer |-> peer, description |-> description]}

(* Line 172: connections.allowDefaultPortFrom(service, description). *)
AllowDefaultPortFrom(rules, peer, description) ==
    rules \cup {[peer |-> peer, description |-> description]}

(* Line 175: loadBalancer.connections.addSecurityGroup(sg). *)
AddSecurityGroup(ingress, lb, sg) == ingress \cup {[lb |-> lb, via |-> sg]}

(* The cluster field set to a cluster this invocation did not create. *)
PublicFieldsSharedCluster(id) ==
    [loadBalancer |-> LoadBalancerHandle(id), cluster |-> "backstage-solution-cluster"]

(* Lines 177-178: the two public fields. *)
PublicFields(id) ==
    [loadBalancer |-> LoadBalancerHandle(id), cluster |-> ClusterHandle(id)]

(* An exception of a library call caught and the constructor carried on. *)
OnThrowSwallowed(step) ==
    IF step \in LibraryCalls THEN NextStatement(step) ELSE "failed"

(* An exception thrown by a statement leaves the constructor. *)
OnThrow(step) == "failed"

Logged(step) == Append(log, [inv |-> invocations, id |-> callerProps.id, step |-> step])

----------------------------------------------------------------------------
(* The inputs a caller may pass. *)

CallerInputs ==
    [id : ConstructIds,
     ecrKmsKey : {Undefined, "ecr-kms-key"},
     dbSecret : {Undefined, "db-credentials"},
     envVars : Optional(CallerEnvKeys, CallerEnvValues),
     secretVars : Optional(CallerSecretKeys, CallerSecretValues)]

NoCallerProps ==
    [id |-> "", ecrKmsKey |-> Undefined, dbSecret |-> Undefined,
     envVars |-> Absent, secretVars |-> Absent]

NoProps == MergeProps(NoCallerProps)

Finished(result, at) ==
    Append(outcomes, [id |-> callerProps.id, result |-> result, at |-> at,
                      ecrKmsKey |-> callerProps.ecrKmsKey,
                      dbSecret |-> callerProps.dbSecret])

Init ==
    /\ pc = "idle"
    /\ callerProps = NoCallerProps
    /\ props = NoProps
    /\ tree = {}
    /\ log = <<>>
    /\ outcomes = <<>>
    /\ secrets = {}
    /\ clusters = {}
    /\ services = {}
    /\ accessLogs = {}
    /\ grants = {}
    /\ dbRules \in SUBSET PreExistingRules
    /\ lbIngress = {}
    /\ returned = {}
    /\ invocations = 0

(* Lines 96-97: new BackstageFargateServiceConstruct(scope, id, props);    *)
(* super(scope, id) adds the construct to the scope.                       *)
Construct(input) ==
    /\ pc \in {"idle", "done", "failed"}
    /\ invocations < MaxInvocations
    /\ input.id \notin tree
    /\ invocations' = invocations + 1
    /\ callerProps' = input
    /\ props' = NoProps
    /\ tree' = tree \cup {input.id}
    /\ pc' = "merge"
    /\ UNCHANGED <<log, outcomes, secrets, clusters, services, accessLogs,
                   grants, dbRules, lbIngress, returned>>

(* Line 97: super(scope, id) throws when the scope already has a child id; *)
(* the props argument is never read.                                       *)
ConstructDuplicate(id) ==
    /\ pc \in {"idle", "done", "failed"}
    /\ invocations < MaxInvocations
    /\ id \in tree
    /\ invocations' = invocations + 1
    /\ callerProps' = NoCallerProps
    /\ props' = NoProps
    /\ pc' = OnThrow("super")
    /\ outcomes' = Append(outcomes, [id |-> id, result |-> "failed", at |-> "super",
                                     ecrKmsKey |-> Undefined, dbSecret |-> Undefined])
    /\ UNCHANGED <<tree, log, secrets, clusters, services, accessLogs,
                   grants, dbRules, lbIngress, returned>>

(* Line 100. *)
Merge ==
    /\ pc = "merge"
    /\ props' = MergeProps(callerProps)
    /\ log' = Logged("merge")
    /\ pc' = NextStatement("merge")
    /\ UNCHANGED <<callerProps, tree, outcomes, secrets, clusters, services,
                   accessLogs, grants, dbRules, lbIngress, returned, invocations>>

(* Line 104. *)
CreateSecret ==
    /\ pc = "secret"
    /\ secrets' = secrets \cup {SecretHandle(props.id)}
    /\ log' = Logged("secret")
    /\ pc' = NextStatement("secret")
    /\ UNCHANGED <<callerProps, props, tree, outcomes, clusters, services,
                   accessLogs, grants, dbRules, lbIngress, returned, invocations>>

(* Lines 106-109. *)
CreateCluster ==
    /\ pc = "cluster"
    /\ clusters' = clusters \cup
           {[handle |-> ClusterHandle(props.id), vpc |-> network.vpc,
             containerInsights |-> TRUE]}
    /\ log' = Logged("cluster")
    /\ pc' = NextStatement("cluster")
    /\ UNCHANGED <<callerProps, props, tree, outcomes, secrets, services,
                   accessLogs, grants, dbRules, lbIngress, returned, invocations>>

(* Lines 116-161, with props.dbCluster.secret defined. *)
CreateService ==
    /\ pc = "service"
    /\ props.dbSecret # Undefined
    /\ services' = services \cup {ServiceDefinition(props)}
    /\ lbIngress' = lbIngress \cup
           {[lb |-> LoadBalancerHandle(props.id), via |-> src] :
               src \in ListenerIngress(openListener)}
    /\ log' = Logged("service")
    /\ pc' = NextStatement("service")
    /\ UNCHANGED <<callerProps, props, tree, outcomes, secrets, clusters,
                   accessLogs, grants, dbRules, returned, invocations>>

(* Lines 142-143: props.dbCluster.secret! is undefined, and building the   *)
(* secrets argument reads a property of undefined: a TypeError, thrown     *)
(* while the arguments of the service are evaluated.                       *)
CreateServiceNoDbSecret ==
    /\ pc = "service"
    /\ props.dbSecret = Undefined
    /\ pc' = OnThrow("service")
    /\ outcomes' = Finished("failed", "service")
    /\ UNCHANGED <<callerProps, props, tree, log, secrets, clusters, services,
                   accessLogs, grants, dbRules, lbIngress, returned, invocations>>

(* Line 164. *)
LogAccessLogs ==
    /\ pc = "logs"
    /\ accessLogs' = accessLogs \cup
           {[lb |-> LoadBalancerHandle(props.id), bucket |-> "access-log-bucket"]}
    /\ log' = Logged("logs")
    /\ pc' = NextStatement("logs")
    /\ UNCHANGED <<callerProps, props, tree, outcomes, secrets, clusters,
                   services, grants, dbRules, lbIngress, returned, invocations>>

(* Lines 167-169, key present. *)
GrantDecrypt ==
    /\ pc = "grant"
    /\ ShouldGrant(props)
    /\ grants' = grants \cup
           {[key |-> props.ecrKmsKey, grantee |-> ExecutionRole(props.id)]}
    /\ log' = Logged("grant")
    /\ pc' = NextStatement("grant")
    /\ UNCHANGED <<callerProps, props, tree, outcomes, secrets, clusters,
                   services, accessLogs, dbRules, lbIngress, returned, invocations>>

(* Lines 167-169, key absent: the body of the if is skipped. *)
SkipGrant ==
    /\ pc = "grant"
    /\ ~ShouldGrant(props)
    /\ pc' = NextStatement("grant")
    /\ UNCHANGED <<callerProps, props, tree, log, outcomes, secrets, clusters,
                   services, accessLogs, grants, dbRules, lbIngress, returned,
                   invocations>>

(* Line 172. *)
OpenDatabase ==
    /\ pc = "db"
    /\ dbRules' = AllowDefaultPortFrom(dbRules, ServicePeer(props.id),
                                       "from fargate service")
    /\ log' = Logged("db")
    /\ pc' = NextStatement("db")
    /\ UNCHANGED <<callerProps, props, tree, outcomes, secrets, clusters,
                   services, accessLogs, grants, lbIngress, returned, invocations>>

(* Line 175. *)
RestrictLoadBalancer ==
    /\ pc = "lb"
    /\ lbIngress' = AddSecurityGroup(lbIngress, LoadBalancerHandle(props.id),
                                     network.allowedIpsSg)
    /\ log' = Logged("lb")
    /\ pc' = NextStatement("lb")
    /\ UNCHANGED <<callerProps, props, tree, outcomes, secrets, clusters,
                   services, accessLogs, grants, dbRules, returned, invocations>>

(* Lines 177-179: the public fields are set and the constructor returns. *)
Assign ==
    /\ pc = "assign"
    /\ returned' = returned \cup
           {[inv |-> invocations, fields |-> PublicFields(props.id)]}
    /\ outcomes' = Finished("ok", "")
    /\ pc' = NextStatement("assign")
    /\ UNCHANGED <<callerProps, props, tree, log, secrets, clusters, services,
                   accessLogs, grants, dbRules, lbIngress, invocations>>

(* A call into the resource library throws (quota, permission, naming      *)
(* collision, unreachable log bucket); nothing in the constructor catches. *)
LibraryCallThrows ==
    /\ pc \in LibraryCalls
    /\ pc = "grant" => ShouldGrant(props)
    /\ pc = "service" => props.dbSecret # Undefined
    /\ pc' = OnThrow(pc)
    /\ outcomes' = Finished("failed", pc)
    /\ UNCHANGED <<callerProps, props, tree, log, secrets, clusters, services,
                   accessLogs, grants, dbRules, lbIngress, returned, invocations>>

Next ==
    \/ \E input \in CallerInputs : Construct(input)
    \/ \E id \in ConstructIds : ConstructDuplicate(id)
    \/ Merge
    \/ CreateSecret
    \/ CreateCluster
    \/ CreateService
    \/ CreateServiceNoDbSecret
    \/ LogAccessLogs
    \/ GrantDecrypt
    \/ SkipGrant
    \/ OpenDatabase
    \/ RestrictLoadBalancer
    \/ Assign
    \/ LibraryCallThrows

Spec == Init /\ [][Next]_vars

----------------------------------------------------------------------------
(* Vocabulary of the properties. *)

StepsOf(i) ==
    LET mine == SelectSeq(log, LAMBDA e : e.inv = i)
    IN  [k \in 1..Len(mine) |-> mine[k].step]

Count(seq, x) == Cardinality({k \in 1..Len(seq) : seq[k] = x})

IsPrefix(a, b) ==
    /\ Len(a) <= Len(b)
    /\ \A k \in 1..Len(a) : a[k] = b[k]

KeyOf(i) ==
    IF i <= Len(outcomes) THEN outcomes[i].ecrKmsKey ELSE callerProps.ecrKmsKey

(* The order of the graph mutations as stated, the grant only with a key. *)
StatedOrder(key) ==
    SelectSeq(<<"merge", "secret", "cluster", "service", "logs", "grant", "db", "lb">>,
              LAMBDA st : st # "grant" \/ key # Undefined)

(* The stated mutations that come before statement k. *)
StatedBefore(k, key) ==
    IF k = "super"
    THEN <<>>
    ELSE LET order == StatedOrder(key)
             at == CHOOSE n \in 1..Len(order) : order[n] = k
         IN  SubSeq(order, 1, at - 1)

Succeeded == {i \in 1..Len(outcomes) : outcomes[i].result = "ok"}
Failed == {i \in 1..Len(outcomes) : outcomes[i].result = "failed"}

IngressOf(lb) == {r.via : r \in {x \in lbIngress : x.lb = lb}}

InjectedKeys(s) == DOMAIN s.environment \cup DOMAIN s.secrets

RequiredKeys ==
    {"POSTGRES_HOST", "POSTGRES_PORT", "POSTGRES_USER", "POSTGRES_PASSWORD",
     "OKTA_ORG_URL", "OKTA_CLIENT_ID", "OKTA_CLIENT_SECRET", "OKTA_API_TOKEN",
     "GITLAB_ADMIN_TOKEN", "BACKSTAGE_SECRET"}

ApplicationSettingKeys ==
    {"BACKSTAGE_TITLE", "BACKSTAGE_ORGNAME", "PROTOCOL", "BACKSTAGE_HOSTNAME",
     "GITLAB_HOSTNAME", "BACKSTAGE_PORT", "NODE_ENV", "CUSTOMER_NAME",
     "CUSTOMER_LOGO", "CUSTOMER_LOGO_ICON"}

(* The service the invocation in callerProps created, if it has. *)
CurrentServices == {s \in services : s.id = callerProps.id}

(* The keys a caller's optional map holds: none unless it is a map. *)
CallerKeys(opt) == IF opt.value = "map" THEN DOMAIN opt.map ELSE {}

EmptyCallerMaps ==
    /\ CallerKeys(callerProps.envVars) = {}
    /\ CallerKeys(callerProps.secretVars) = {}

----------------------------------------------------------------------------
(* C1: every key of the caller's envVars and secretVars is injected into   *)
(* the container of the created service with the caller's value, next to   *)
(* the required keys, none of which is lost.                               *)
C1_CallerVarsInjected ==
    \A s \in CurrentServices :
        /\ \A k \in CallerKeys(callerProps.envVars) :
              /\ k \in DOMAIN s.environment
              /\ s.environment[k] = callerProps.envVars.map[k]
        /\ \A k \in CallerKeys(callerProps.secretVars) :
              /\ k \in DOMAIN s.secrets
              /\ s.secrets[k] = callerProps.secretVars.map[k]
        /\ RequiredKeys \subseteq InjectedKeys(s)

(* C2: an invocation whose database has no credential handle, and in      *)
(* which no library call throws first, fails before the service-auth       *)
(* secret, the cluster or the service is created.                          *)
C2_FailsBeforeAnyResource ==
    \A i \in 1..Len(outcomes) :
        (outcomes[i].dbSecret = Undefined
            /\ outcomes[i].at \notin {"super", "secret", "cluster"})
            => /\ outcomes[i].result = "failed"
               /\ \A st \in {"secret", "cluster", "service"} :
                     Count(StepsOf(i), st) = 0

(* C3: a decrypt grant to the execution role is issued exactly when the    *)
(* key is present: once in a completed invocation with a key, never in one *)
(* without, and never on an undefined key.                                 *)
C3_GrantIffKey ==
    /\ \A g \in grants : g.key # Undefined
    /\ \A i \in 1..invocations :
          Count(StepsOf(i), "grant") > 0 => KeyOf(i) # Undefined
    /\ \A i \in Succeeded :
          LET issued == {g \in grants : g.grantee = ExecutionRole(outcomes[i].id)}
          IN  IF outcomes[i].ecrKmsKey # Undefined
              THEN /\ Count(StepsOf(i), "grant") = 1
                   /\ issued = {[key |-> outcomes[i].ecrKmsKey,
                                 grantee |-> ExecutionRole(outcomes[i].id)]}
              ELSE /\ Count(StepsOf(i), "grant") = 0
                   /\ issued = {}

C3_Witness ==
    /\ \E i \in Succeeded : outcomes[i].ecrKmsKey # Undefined
    /\ \E i \in Succeeded : outcomes[i].ecrKmsKey = Undefined
    /\ Cardinality(grants) = 1

(* C4: the database perimeter only grows: no step removes an ingress rule, *)
(* and every completed invocation's service is among the rules.            *)
C4_PerimeterOnlyGrows ==
    /\ [][dbRules \subseteq dbRules']_vars
    /\ [](\A i \in Succeeded :
            [peer |-> ServicePeer(outcomes[i].id),
             description |-> "from fargate service"] \in dbRules)

C4_Witness ==
    /\ Cardinality(Succeeded) = 2
    /\ PreExistingRules \subseteq dbRules
    /\ Cardinality(dbRules) = 3

(* C5: an invocation that failed at statement k executed exactly the       *)
(* statements before k, once each and none after, their resources are      *)
(* still in place, and it returned no public fields.                       *)
C5_FirstFailurePropagates ==
    \A i \in Failed :
        LET id == outcomes[i].id
            done == StepsOf(i)
        IN  /\ done = StatedBefore(outcomes[i].at, outcomes[i].ecrKmsKey)
            /\ \A r \in returned : r.inv # i
            /\ Count(done, "secret") > 0 => SecretHandle(id) \in secrets
            /\ Count(done, "cluster") > 0 =>
                  \E c \in clusters : c.handle = ClusterHandle(id)
            /\ Count(done, "service") > 0 =>
                  \E s \in services : s.handle = ServiceHandle(id)
            /\ Count(done, "logs") > 0 =>
                  \E a \in accessLogs : a.lb = LoadBalancerHandle(id)
            /\ Count(done, "grant") > 0 =>
                  \E g \in grants : g.grantee = ExecutionRole(id)
            /\ Count(done, "db") > 0 =>
                  \E r \in dbRules : r.peer = ServicePeer(id)
            /\ Count(done, "lb") > 0 =>
                  network.allowedIpsSg \in IngressOf(LoadBalancerHandle(id))

C5_Witness ==
    \E i \in Failed :
        /\ outcomes[i].at = "db"
        /\ i < invocations
        /\ \E s \in services : s.handle = ServiceHandle(outcomes[i].id)
        /\ \A r \in dbRules : r.peer # ServicePeer(outcomes[i].id)

(* C6 as stated: with empty caller maps the service has the fixed sizing   *)
(* and the injected keys are exactly the required keys, no others.         *)
C6_OnlyRequiredKeys ==
    EmptyCallerMaps =>
        \A s \in CurrentServices :
            /\ s.containerPort = 8080
            /\ s.desiredCount = 2
            /\ s.memoryLimitMiB = 2048
            /\ s.cpu = 512
            /\ InjectedKeys(s) = RequiredKeys

(* C6 amended: with empty caller maps the service has the fixed sizing and *)
(* the injected keys are exactly the required keys and the ten fixed       *)
(* application settings, each with a defined value.                        *)
C6_FixedKeysAndSettings ==
    EmptyCallerMaps =>
        \A s \in CurrentServices :
            /\ s.containerPort = 8080
            /\ s.desiredCount = 2
            /\ s.memoryLimitMiB = 2048
            /\ s.cpu = 512
            /\ InjectedKeys(s) = RequiredKeys \cup ApplicationSettingKeys
            /\ DOMAIN s.environment \cap DOMAIN s.secrets = {}
            /\ \A k \in DOMAIN s.environment : s.environment[k] # Undefined
            /\ \A k \in DOMAIN s.secrets : s.secrets[k].secret # Undefined

C6_Witness ==
    /\ pc = "done"
    /\ callerProps.envVars = GivenUndefined
    /\ props.optional.envVars.value = Undefined
    /\ callerProps.secretVars = Absent
    /\ props.optional.secretVars = Present(EmptyMap)
    /\ EmptyCallerMaps
    /\ CurrentServices # {}

(* C7: a load balancer has no ingress boundary before its allow-list step, *)
(* and after it only the allowed-ingress security group.                   *)
C7_OnlyAllowedIngress ==
    /\ \A r \in lbIngress : \E s \in services : s.loadBalancer = r.lb
    /\ \A s \in services :
          /\ s.openListener = FALSE
          /\ IngressOf(s.loadBalancer) \subseteq {network.allowedIpsSg}
          /\ IngressOf(s.loadBalancer) # {} =>
                \E k \in 1..Len(log) : log[k].id = s.id /\ log[k].step = "lb"
    /\ \A i \in Succeeded :
          IngressOf(LoadBalancerHandle(outcomes[i].id)) = {network.allowedIpsSg}

C7_Witness ==
    /\ pc = "lb"
    /\ Succeeded # {}
    /\ \E s \in CurrentServices : IngressOf(s.loadBalancer) = {}

(* C8: every created service has an HTTPS listener and an HTTP listener    *)
(* that redirects to HTTPS, and no HTTP listener that forwards.            *)
C8_HttpsWithRedirect ==
    \A s \in services :
        /\ \E l \in s.listeners : l.protocol = "HTTPS" /\ l.action = "forward"
        /\ \E l \in s.listeners : l.protocol = "HTTP" /\ l.action = "redirect-to-HTTPS"
        /\ \A l \in s.listeners : l.protocol = "HTTP" => l.action = "redirect-to-HTTPS"

C8_Witness ==
    /\ Cardinality(services) = 2
    /\ pc = "done"
    /\ callerProps.ecrKmsKey = Undefined
    /\ CallerKeys(callerProps.envVars) # {}
    /\ CallerKeys(callerProps.secretVars) # {}
    /\ \E i \in Succeeded : outcomes[i].ecrKmsKey # Undefined

(* C9: a completed invocation created one cluster and one service, and its *)
(* public fields are that cluster and that service's load balancer; only   *)
(* completed invocations return fields.                                    *)
C9_OneClusterOneService ==
    /\ \A r \in returned : r.inv \in Succeeded
    /\ \A i \in Succeeded :
          LET id == outcomes[i].id
              mine == {r \in returned : r.inv = i}
          IN  /\ Count(StepsOf(i), "cluster") = 1
              /\ Count(StepsOf(i), "service") = 1
              /\ Cardinality(mine) = 1
              /\ \A r \in mine :
                    /\ r.fields.cluster = ClusterHandle(id)
                    /\ \E c \in clusters : c.handle = r.fields.cluster
                    /\ \E s \in services :
                          /\ s.id = id
                          /\ s.cluster = r.fields.cluster
                          /\ s.loadBalancer = r.fields.loadBalancer
    /\ Len(SelectSeq(log, LAMBDA e : e.inv \in Succeeded /\ e.step = "cluster"))
          = Cardinality(Succeeded)
    /\ Len(SelectSeq(log, LAMBDA e : e.inv \in Succeeded /\ e.step = "service"))
          = Cardinality(Succeeded)

C9_Witness ==
    /\ Cardinality(Succeeded) = 2
    /\ Cardinality(returned) = 2
    /\ Cardinality(clusters) = 2

(* C10: the statements of an invocation run in the stated order: merge,    *)
(* secret, cluster, service, access logs, grant (with a key only),         *)
(* database, load balancer; a completed invocation ran them all.           *)
C10_FixedOrder ==
    /\ \A i \in 1..invocations : IsPrefix(StepsOf(i), StatedOrder(KeyOf(i)))
    /\ \A i \in Succeeded : StepsOf(i) = StatedOrder(outcomes[i].ecrKmsKey)

C10_Witness ==
    /\ \E i \in Succeeded : Len(StepsOf(i)) = 8
    /\ \E i \in Succeeded : Len(StepsOf(i)) = 7
    /\ Len(log) = 15

====
